---------------------------- MODULE Spec2Model ----------------------------
(***************************************************************************)
(* Model of the agent tools of src/src/tools.ts: the read-only SQL query   *)
(* guard (executeSQLQuery), schema introspection (getDatabaseSchema) and   *)
(* task scheduling (scheduleTask).  Query texts are sequences of           *)
(* one-character strings, so that trim, toLowerCase, startsWith and        *)
(* includes are computed character by character as the code computes them. *)
(* The SQL storage and the agent's scheduler are external capabilities:    *)
(* they are modelled as the environment the tools call into.               *)
(***************************************************************************)
EXTENDS Integers, Sequences, FiniteSets, TLC

VARIABLES
    store,          \* the Durable Object's SQLite storage: its tables
    tool,           \* name of the tool invoked last ("none" initially)
    args,           \* the arguments of that invocation
    result,         \* what that invocation returned to the caller
    execCalls,      \* the texts that invocation handed to storage.exec
    storeBefore,    \* the storage as that invocation found it
    schemaPrev,     \* the getDatabaseSchema run before the latest one
    schemaLast,     \* the latest getDatabaseSchema run
    promises        \* agent.schedule calls issued: their promises

vars == <<store, tool, args, result, execCalls, storeBefore,
          schemaPrev, schemaLast, promises>>

----------------------------------------------------------------------------
(* Characters.  Collation lists the printable ASCII characters used, in    *)
(* code order; UpperChars[i] lowercases to LowerChars[i].                  *)

Collation ==
    <<" ", "'", "(", ")", "*", ",", "-", ".", "0", "1", "2", "3", "4", "5",
      "6", "7", "8", "9", ";", "=", "A", "B", "C", "D", "E", "F", "G", "H",
      "I", "J", "K", "L", "M", "N", "O", "P", "Q", "R", "S", "T", "U", "V",
      "W", "X", "Y", "Z", "_", "a", "b", "c", "d", "e", "f", "g", "h", "i",
      "j", "k", "l", "m", "n", "o", "p", "q", "r", "s", "t", "u", "v", "w",
      "x", "y", "z">>

UpperChars ==
    <<"A", "B", "C", "D", "E", "F", "G", "H", "I", "J", "K", "L", "M", "N",
      "O", "P", "Q", "R", "S", "T", "U", "V", "W", "X", "Y", "Z">>

LowerChars ==
    <<"a", "b", "c", "d", "e", "f", "g", "h", "i", "j", "k", "l", "m", "n",
      "o", "p", "q", "r", "s", "t", "u", "v", "w", "x", "y", "z">>

DigitChars ==
    <<"0", "1", "2", "3", "4", "5", "6", "7", "8", "9">>

IndexIn(c, chars) ==
    IF \E i \in 1..Len(chars) : chars[i] = c
    THEN CHOOSE i \in 1..Len(chars) : chars[i] = c
    ELSE 0

Min(a, b) == IF a <= b THEN a ELSE b

----------------------------------------------------------------------------
(* The string operations the guard uses (JavaScript String.prototype).     *)

IsWhitespace(c) == c = " "

RECURSIVE trimStart(_)
trimStart(s) ==
    IF Len(s) > 0 /\ IsWhitespace(s[1]) THEN trimStart(Tail(s)) ELSE s

RECURSIVE trimEnd(_)
trimEnd(s) ==
    IF Len(s) > 0 /\ IsWhitespace(s[Len(s)])
    THEN trimEnd(SubSeq(s, 1, Len(s) - 1))
    ELSE s

\* String.prototype.trim: drops the whitespace at both ends.
trim(s) == trimEnd(trimStart(s))

\* The lower-case form of each character.
LowerOf ==
    [c \in {Collation[i] : i \in 1..Len(Collation)} |->
        IF IndexIn(c, UpperChars) > 0 THEN LowerChars[IndexIn(c, UpperChars)] ELSE c]

\* The place of each character in the collation.
RankOf == [c \in {Collation[i] : i \in 1..Len(Collation)} |-> IndexIn(c, Collation)]

\* String.prototype.toLowerCase, character by character.
toLowerCase(s) == [i \in 1..Len(s) |-> LowerOf[s[i]]]

startsWith(s, p) == Len(s) >= Len(p) /\ SubSeq(s, 1, Len(p)) = p

RECURSIVE indexFrom(_, _, _)
indexFrom(s, p, i) ==
    IF i + Len(p) - 1 > Len(s) THEN 0
    ELSE IF SubSeq(s, i, i + Len(p) - 1) = p THEN i
    ELSE indexFrom(s, p, i + 1)

\* First position at which p occurs in s, 0 when it does not occur.
indexOf(s, p) == indexFrom(s, p, 1)

RECURSIVE lastIndexFrom(_, _, _)
lastIndexFrom(s, p, i) ==
    IF i < 1 THEN 0
    ELSE IF SubSeq(s, i, i + Len(p) - 1) = p THEN i
    ELSE lastIndexFrom(s, p, i - 1)

\* Last position at which p occurs in s, 0 when it does not occur.
lastIndexOf(s, p) == lastIndexFrom(s, p, Len(s) - Len(p) + 1)

includes(s, p) == indexOf(s, p) > 0

\* The decimal digits of a natural number.
RECURSIVE Digits(_)
Digits(n) ==
    IF n < 10 THEN <<DigitChars[n + 1]>>
    ELSE Digits(n \div 10) \o <<DigitChars[(n % 10) + 1]>>

\* ${n} in a template literal: Number -> String for an integer.
NumberToString(n) == IF n < 0 THEN <<"-">> \o Digits(0 - n) ELSE Digits(n)

----------------------------------------------------------------------------
(* The query guard of executeSQLQuery.                                     *)

KwSelect ==
    <<"s", "e", "l", "e", "c", "t">>

KwLimit ==
    <<"l", "i", "m", "i", "t">>

LimitSuffix ==
    <<" ", "L", "I", "M", "I", "T", " ">>

\* The limit argument of a request: absent, or a number.
NoLimit == [given |-> FALSE, value |-> 0]
Limit(n) == [given |-> TRUE, value |-> n]

DEFAULT_LIMIT == 100
FALLBACK_LIMIT == 100
MAX_LIMIT == 500

\* inputSchema: limit is z.number().optional().default(100).
inputLimit(limitArg) == IF limitArg.given THEN limitArg.value ELSE DEFAULT_LIMIT

normalizedQuery(query) == toLowerCase(trim(query))

\* The guard with includes in the place of startsWith.
isSelectAnywhere(query) == includes(normalizedQuery(query), KwSelect)

\* The SELECT-only guard: the request goes on to storage iff this holds.
isSelect(query) == startsWith(normalizedQuery(query), KwSelect)

\* Math.min(limit || 100, 500): 0 is falsy, so it falls back to 100.
safeLimit(limit) ==
    Min(IF limit = 0 THEN FALLBACK_LIMIT ELSE limit, MAX_LIMIT)

\* The rewrite applied to the normalized copy instead of the original text.
limitedQueryNormalized(query, limit) ==
    IF includes(normalizedQuery(query), KwLimit)
    THEN normalizedQuery(query)
    ELSE normalizedQuery(query) \o LimitSuffix \o NumberToString(safeLimit(limit))

\* The text handed to storage.exec.
limitedQuery(query, limit) ==
    IF includes(normalizedQuery(query), KwLimit)
    THEN query
    ELSE query \o LimitSuffix \o NumberToString(safeLimit(limit))

----------------------------------------------------------------------------
(* The SQL execution capability, agent.ctx.storage.sql (external).  The    *)
(* store is the sequence of its tables in creation order; a table's rows   *)
(* are identified by 1..rows.  exec runs the statements of a text in       *)
(* order, as SQLite does, and the cursor yields the rows of the last one.  *)

KwFrom ==
    <<" ", "f", "r", "o", "m", " ">>

KwLimitClause ==
    <<" ", "l", "i", "m", "i", "t", " ">>

KwOrderByName ==
    <<" ", "o", "r", "d", "e", "r", " ", "b", "y", " ", "n", "a", "m", "e">>

KwDropTable ==
    <<"d", "r", "o", "p", " ", "t", "a", "b", "l", "e", " ">>

KwDeleteFrom ==
    <<"d", "e", "l", "e", "t", "e", " ", "f", "r", "o", "m", " ">>

MasterName ==
    <<"s", "q", "l", "i", "t", "e", "_", "m", "a", "s", "t", "e", "r">>

ContactsName ==
    <<"c", "o", "n", "t", "a", "c", "t", "s">>

StateName ==
    <<"c", "f", "_", "a", "g", "e", "n", "t", "s", "_", "s", "t", "a", "t",
      "e">>

Range(s) == {s[i] : i \in 1..Len(s)}

Err(msg) == [isError |-> TRUE, message |-> msg]
NonErr(msg) == [isError |-> FALSE, message |-> msg]

Threw(st, e) == [threw |-> TRUE, error |-> e, rows |-> <<>>, store |-> st]
Returned(st, rows) == [threw |-> FALSE, error |-> Err(""), rows |-> rows, store |-> st]

HasTable(st, name) == \E i \in 1..Len(st) : st[i].name = name
TableOf(st, name) == st[CHOOSE i \in 1..Len(st) : st[i].name = name]

\* BINARY collation: byte-wise comparison of two names.
NameLess(a, b) ==
    \E k \in 1..(Min(Len(a), Len(b)) + 1) :
        /\ SubSeq(a, 1, k - 1) = SubSeq(b, 1, k - 1)
        /\ \/ k = Len(a) + 1 /\ k <= Len(b)
           \/ /\ k <= Len(a)
              /\ k <= Len(b)
              /\ RankOf[a[k]] < RankOf[b[k]]

\* The rows of sqlite_master for the tables, in creation order.
MasterRows(st) == [i \in 1..Len(st) |-> [name |-> st[i].name, sql |-> st[i].sql]]

\* ORDER BY name (names are unique in sqlite_master).
OrderByName(rows) ==
    [i \in 1..Len(rows) |->
        CHOOSE r \in Range(rows) :
            Cardinality({x \in Range(rows) : NameLess(x.name, r.name)}) = i - 1]

\* A "--" comment runs to the end of the (single-line) text.
StripComment(s) ==
    LET i == indexOf(s, <<"-", "-">>)
    IN  IF i = 0 THEN s ELSE SubSeq(s, 1, i - 1)

RECURSIVE SplitStatements(_)
SplitStatements(s) ==
    LET i == indexOf(s, <<";">>)
    IN  IF i = 0 THEN <<s>>
        ELSE <<SubSeq(s, 1, i - 1)>> \o SplitStatements(SubSeq(s, i + 1, Len(s)))

NonEmpty(s) == Len(s) > 0

\* The statements of a text: lowercased (SQL keywords and names are case
\* insensitive), trimmed, empty ones dropped.
Statements(text) ==
    LET parts == SplitStatements(StripComment(text))
    IN  SelectSeq([i \in 1..Len(parts) |-> toLowerCase(trim(parts[i]))], NonEmpty)

FirstWord(s) ==
    LET i == indexOf(s, <<" ">>)
    IN  IF i = 0 THEN s ELSE SubSeq(s, 1, i - 1)

IsIntLiteral(s) ==
    /\ Len(s) > 0
    /\ LET d == IF s[1] = "-" THEN Tail(s) ELSE s
       IN  Len(d) > 0 /\ \A i \in 1..Len(d) : IndexIn(d[i], DigitChars) > 0

RECURSIVE ParseNat(_)
ParseNat(d) ==
    IF Len(d) = 0 THEN 0
    ELSE 10 * ParseNat(SubSeq(d, 1, Len(d) - 1)) + (IndexIn(d[Len(d)], DigitChars) - 1)

ParseInt(s) == IF s[1] = "-" THEN 0 - ParseNat(Tail(s)) ELSE ParseNat(s)

\* The table a SELECT reads: the word after " from ", <<>> when there is none.
FromTable(stmt) ==
    LET i == indexOf(stmt, KwFrom)
    IN  IF i = 0 THEN <<>> ELSE FirstWord(SubSeq(stmt, i + Len(KwFrom), Len(stmt)))

\* The operand of the trailing LIMIT clause of a SELECT, as text.
LimitOperand(stmt) ==
    trim(SubSeq(stmt, lastIndexOf(stmt, KwLimitClause) + Len(KwLimitClause), Len(stmt)))

HasLimitClause(stmt) == lastIndexOf(stmt, KwLimitClause) > 0

\* LIMIT n keeps the first n rows; a negative n means no upper bound.
ApplyLimit(rows, n) == IF n < 0 THEN rows ELSE SubSeq(rows, 1, Min(n, Len(rows)))

ExecSelect(st, stmt) ==
    LET tbl == FromTable(stmt)
        all == IF tbl = <<>> THEN <<1>>
               ELSE IF tbl = MasterName
                    THEN IF includes(stmt, KwOrderByName)
                         THEN OrderByName(MasterRows(st))
                         ELSE MasterRows(st)
                    ELSE [i \in 1..TableOf(st, tbl).rows |-> i]
    IN  IF tbl # <<>> /\ tbl # MasterName /\ ~HasTable(st, tbl)
        THEN Threw(st, Err("no such table"))
        ELSE IF ~HasLimitClause(stmt) THEN Returned(st, all)
        ELSE IF ~IsIntLiteral(LimitOperand(stmt)) THEN Threw(st, Err("syntax error"))
        ELSE Returned(st, ApplyLimit(all, ParseInt(LimitOperand(stmt))))

ExecDelete(st, stmt) ==
    LET tbl == FirstWord(SubSeq(stmt, Len(KwDeleteFrom) + 1, Len(stmt)))
    IN  IF ~HasTable(st, tbl) THEN Threw(st, Err("no such table"))
        ELSE Returned([i \in 1..Len(st) |->
                          IF st[i].name = tbl THEN [st[i] EXCEPT !.rows = 0] ELSE st[i]],
                      <<>>)

ExecDrop(st, stmt) ==
    LET tbl == FirstWord(SubSeq(stmt, Len(KwDropTable) + 1, Len(stmt)))
        keep == {i \in 1..Len(st) : st[i].name # tbl}
    IN  IF ~HasTable(st, tbl) THEN Threw(st, Err("no such table"))
        ELSE Returned([i \in 1..(Len(st) - 1) |->
                          st[CHOOSE j \in keep :
                                Cardinality({k \in keep : k < j}) = i - 1]],
                      <<>>)

\* Whether a statement changes the storage.
IsWriteStatement(stmt) == startsWith(stmt, KwDeleteFrom) \/ startsWith(stmt, KwDropTable)

ExecStatement(st, stmt) ==
    IF FirstWord(stmt) = KwSelect THEN ExecSelect(st, stmt)
    ELSE IF startsWith(stmt, KwDeleteFrom) THEN ExecDelete(st, stmt)
    ELSE IF startsWith(stmt, KwDropTable) THEN ExecDrop(st, stmt)
    ELSE Threw(st, Err("syntax error"))

RECURSIVE RunStatements(_, _, _)
RunStatements(st, stmts, rows) ==
    IF Len(stmts) = 0 THEN Returned(st, rows)
    ELSE LET r == ExecStatement(st, Head(stmts))
         IN  IF r.threw THEN r ELSE RunStatements(r.store, Tail(stmts), r.rows)

\* storage.exec(text).toArray().  fault is the environment's choice for this
\* call: "none", or the storage failing with an Error ("error") or with a
\* raised value that is no Error instance ("value").
StorageExec(st, text, fault) ==
    IF fault = "error" THEN Threw(st, Err("storage unavailable"))
    ELSE IF fault = "value" THEN Threw(st, NonErr("storage unavailable"))
    ELSE RunStatements(st, Statements(text), <<>>)

----------------------------------------------------------------------------
(* What a tool's execute function hands back: a string (the parts of a     *)
(* template literal) or a JSON document.                                   *)

Text(parts) == [kind |-> "text", parts |-> parts]
Json(value) == [kind |-> "json", value |-> value]

NoResult == [kind |-> "none"]

RejectMsg ==
    "Error: Only SELECT queries are allowed for security reasons. Please start your query with SELECT."

EmptyMsg == "Query executed successfully. No results returned."

\* One call of storage.exec as the tool saw it.
ExecCall(text, r) == [text |-> text, threw |-> r.threw, error |-> r.error, rows |-> r.rows]

----------------------------------------------------------------------------
(* executeSQLQuery.execute                                                 *)

\* The catch clause without the instanceof test.
sqlCatchUnknown(error) == Text(<<"SQL Error: ", "Unknown error">>)

\* The catch clause: the raised value becomes a string.
sqlCatch(error) ==
    Text(<<"SQL Error: ", IF error.isError THEN error.message ELSE "Unknown error">>)

\* The shaping without the branch for an empty result.
formatRowsNoEmptyCase(rows, text) ==
    Json([rowCount |-> Len(rows), rows |-> rows, query |-> text])

\* The shaping of the rows storage.exec returned.
formatRows(rows, text) ==
    IF Len(rows) = 0
    THEN Json([rowCount |-> 0, rows |-> <<>>, query |-> text, message |-> EmptyMsg])
    ELSE Json([rowCount |-> Len(rows), rows |-> rows, query |-> text])

\* The tool with a second attempt after a failed storage.exec.
executeSQLQueryRetry(st, query, limit, fault) ==
    IF ~isSelect(query)
    THEN [result |-> Text(<<RejectMsg>>), calls |-> <<>>, store |-> st]
    ELSE LET text == limitedQuery(query, limit)
             r == StorageExec(st, text, fault)
             again == StorageExec(r.store, text, "none")
         IN  IF ~r.threw
             THEN [result |-> formatRows(r.rows, text),
                   calls |-> <<ExecCall(text, r)>>,
                   store |-> r.store]
             ELSE [result |-> IF again.threw THEN sqlCatch(again.error)
                              ELSE formatRows(again.rows, text),
                   calls |-> <<ExecCall(text, r), ExecCall(text, again)>>,
                   store |-> again.store]

executeSQLQuery(st, query, limit, fault) ==
    IF ~isSelect(query)
    THEN [result |-> Text(<<RejectMsg>>), calls |-> <<>>, store |-> st]
    ELSE LET text == limitedQuery(query, limit)
             r == StorageExec(st, text, fault)
         IN  [result |-> IF r.threw THEN sqlCatch(r.error) ELSE formatRows(r.rows, text),
              calls |-> <<ExecCall(text, r)>>,
              store |-> r.store]

----------------------------------------------------------------------------
(* getDatabaseSchema.execute                                               *)

\* The schema query without its ORDER BY clause.
SchemaQueryUnordered ==
    <<"S", "E", "L", "E", "C", "T", " ", "n", "a", "m", "e", ",", " ", "s",
      "q", "l", " ", "F", "R", "O", "M", " ", "s", "q", "l", "i", "t", "e",
      "_", "m", "a", "s", "t", "e", "r", " ", "W", "H", "E", "R", "E", " ",
      "t", "y", "p", "e", "=", "'", "t", "a", "b", "l", "e", "'">>

SchemaQuery ==
    <<"S", "E", "L", "E", "C", "T", " ", "n", "a", "m", "e", ",", " ", "s",
      "q", "l", " ", "F", "R", "O", "M", " ", "s", "q", "l", "i", "t", "e",
      "_", "m", "a", "s", "t", "e", "r", " ", "W", "H", "E", "R", "E", " ",
      "t", "y", "p", "e", "=", "'", "t", "a", "b", "l", "e", "'", " ", "O",
      "R", "D", "E", "R", " ", "B", "Y", " ", "n", "a", "m", "e">>

schemaCatch(error) ==
    Text(<<"Error getting schema: ", IF error.isError THEN error.message ELSE "Unknown error">>)

schemaInfo(tables) ==
    [i \in 1..Len(tables) |-> [table |-> tables[i].name, createStatement |-> tables[i].sql]]

getDatabaseSchema(st, fault) ==
    LET r == StorageExec(st, SchemaQuery, fault)
    IN  [result |->
            IF r.threw THEN schemaCatch(r.error)
            ELSE IF Len(r.rows) = 0 THEN Text(<<"No tables found in database.">>)
            ELSE Json([database |-> "SQLite (Cloudflare Durable Object)",
                       tableCount |-> Len(r.rows),
                       tables |-> schemaInfo(r.rows)]),
         calls |-> <<ExecCall(SchemaQuery, r)>>,
         store |-> r.store]

\* The table set of the storage: names and create statements.
TableSet(st) == {[name |-> st[i].name, sql |-> st[i].sql] : i \in 1..Len(st)}

----------------------------------------------------------------------------
(* scheduleTask.execute.  agent.schedule is external: it either throws     *)
(* while being called, or hands back a promise that settles later.         *)

scheduleInput(when) ==
    IF when.type = "scheduled" THEN when.date
    ELSE IF when.type = "delayed" THEN when.delayInSeconds
    ELSE when.cron

\* throws: agent.schedule raises synchronously, inside the try block.
\* The call is not awaited: the tool goes on as soon as it is issued.
scheduleTask(when, description, throws) ==
    IF when.type = "no-schedule"
    THEN [result |-> Text(<<"Not a valid schedule input">>), issued |-> FALSE]
    ELSE IF throws
    THEN [result |-> Text(<<"Error scheduling task: ", "Error: schedule failed">>),
          issued |-> FALSE]
    ELSE [result |-> Text(<<"Task scheduled for type \"", when.type, "\" : ",
                            scheduleInput(when)>>),
          issued |-> TRUE]

----------------------------------------------------------------------------
(* Inputs.                                                                 *)

Q_SelectAll ==
    <<"S", "E", "L", "E", "C", "T", " ", "*", " ", "F", "R", "O", "M", " ",
      "c", "o", "n", "t", "a", "c", "t", "s">>

Q_SelectLimit10 ==
    <<"s", "e", "l", "e", "c", "t", " ", "*", " ", "f", "r", "o", "m", " ",
      "c", "o", "n", "t", "a", "c", "t", "s", " ", "l", "i", "m", "i", "t",
      " ", "1", "0">>

Q_DropTable ==
    <<"D", "R", "O", "P", " ", "T", "A", "B", "L", "E", " ", "c", "o", "n",
      "t", "a", "c", "t", "s">>

Q_Padded ==
    <<" ", " ", "S", "e", "l", "e", "c", "t", " ", "n", "a", "m", "e", " ",
      "F", "R", "O", "M", " ", "c", "o", "n", "t", "a", "c", "t", "s", " ">>

Q_HugeLimit ==
    <<"s", "e", "l", "e", "c", "t", " ", "*", " ", "f", "r", "o", "m", " ",
      "c", "o", "n", "t", "a", "c", "t", "s", " ", "L", "I", "M", "I", "T",
      " ", "1", "0", "0", "0", "0", "0">>

Q_LimitedColumn ==
    <<"s", "e", "l", "e", "c", "t", " ", "l", "i", "m", "i", "t", "e", "d",
      " ", "f", "r", "o", "m", " ", "c", "o", "n", "t", "a", "c", "t", "s">>

Q_DeleteAfterSelect ==
    <<"s", "e", "l", "e", "c", "t", " ", "1", ";", "d", "e", "l", "e", "t",
      "e", " ", "f", "r", "o", "m", " ", "c", "o", "n", "t", "a", "c", "t",
      "s", "-", "-", "l", "i", "m", "i", "t">>

Q_DropAfterSelect ==
    <<"s", "e", "l", "e", "c", "t", " ", "1", ";", "d", "r", "o", "p", " ",
      "t", "a", "b", "l", "e", " ", "c", "o", "n", "t", "a", "c", "t", "s",
      "-", "-", "l", "i", "m", "i", "t">>

Q_Selectx ==
    <<"s", "e", "l", "e", "c", "t", "x">>

Q_Insert ==
    <<" ", "i", "n", "s", "e", "r", "t", " ", "i", "n", "t", "o", " ", "c",
      "o", "n", "t", "a", "c", "t", "s", " ", "s", "e", "l", "e", "c", "t",
      " ", "1">>

Q_Blank ==
    <<" ", " ">>

Queries ==
    {Q_SelectAll, Q_SelectLimit10, Q_DropTable, Q_Padded, Q_HugeLimit,
     Q_LimitedColumn, Q_DeleteAfterSelect, Q_DropAfterSelect, Q_Selectx,
     Q_Insert, Q_Blank}

\* Rows of the contacts table beyond the 500-row ceiling, and a small table.
RowsOver == 1
FewRows == 2

LimitValues == {-1, 0, 10, MAX_LIMIT, MAX_LIMIT + RowsOver}

LimitArgs == {NoLimit} \cup {Limit(n) : n \in LimitValues}

Faults == {"none", "error", "value"}

ContactRowCounts == {0, FewRows, MAX_LIMIT + RowsOver}

ContactsTable(n) ==
    [name |-> ContactsName, sql |-> "CREATE TABLE contacts (name TEXT, limited INTEGER)",
     rows |-> n]

StateTable ==
    [name |-> StateName, sql |-> "CREATE TABLE cf_agents_state (id TEXT, state TEXT)",
     rows |-> 1]

Whens ==
    {[type |-> "no-schedule", date |-> "", delayInSeconds |-> "", cron |-> ""],
     [type |-> "scheduled", date |-> "2026-01-01T09:00:00Z", delayInSeconds |-> "", cron |-> ""],
     [type |-> "delayed", date |-> "", delayInSeconds |-> "10", cron |-> ""],
     [type |-> "cron", date |-> "", delayInSeconds |-> "", cron |-> "0 9 * * *"]}

Descriptions == {"send report"}

\* How many agent.schedule calls the model keeps track of.
MaxPromises == 2

----------------------------------------------------------------------------
(* The state machine: one action per tool invocation, and the settling of  *)
(* a promise agent.schedule handed back.                                   *)

\* A getDatabaseSchema run: the storage it ran against, whether storage.exec
\* returned, and what the tool returned.
NoRun == [ran |-> FALSE, store |-> <<>>, read |-> FALSE, result |-> NoResult]

Init ==
    /\ \E n \in ContactRowCounts :
          store \in {<<ContactsTable(n), StateTable>>, <<StateTable, ContactsTable(n)>>}
    /\ tool = "none"
    /\ args = [query |-> <<>>, limit |-> NoLimit]
    /\ result = NoResult
    /\ execCalls = <<>>
    /\ storeBefore = store
    /\ schemaPrev = NoRun
    /\ schemaLast = NoRun
    /\ promises = <<>>

\* One executeSQLQuery invocation, its request drawn from the given sets.
ExecuteSQLQueryOf(queries, limitArgs, faults) ==
    \E query \in queries, limitArg \in limitArgs, fault \in faults :
        \E r \in {executeSQLQuery(store, query, inputLimit(limitArg), fault)} :
            /\ tool' = "executeSQLQuery"
            /\ args' = [query |-> query, limit |-> limitArg]
            /\ result' = r.result
            /\ execCalls' = r.calls
            /\ storeBefore' = store
            /\ store' = r.store
            /\ UNCHANGED <<schemaPrev, schemaLast, promises>>

ExecuteSQLQuery == ExecuteSQLQueryOf(Queries, LimitArgs, Faults)

GetDatabaseSchema ==
    \E fault \in Faults :
        \E r \in {getDatabaseSchema(store, fault)} :
            /\ tool' = "getDatabaseSchema"
            /\ args' = [query |-> <<>>, limit |-> NoLimit]
            /\ result' = r.result
            /\ execCalls' = r.calls
            /\ storeBefore' = store
            /\ store' = r.store
            /\ schemaPrev' = schemaLast
            /\ schemaLast' = [ran |-> TRUE, store |-> store,
                              read |-> ~r.calls[1].threw, result |-> r.result]
            /\ UNCHANGED promises

\* The promises kept: the latest MaxPromises.
Latest(ps) == IF Len(ps) > MaxPromises THEN Tail(ps) ELSE ps

ScheduleTask ==
    \E when \in Whens, description \in Descriptions, throws \in BOOLEAN :
        \E r \in {scheduleTask(when, description, throws)} :
            /\ tool' = "scheduleTask"
            /\ args' = [when |-> when, description |-> description]
            /\ result' = r.result
            /\ execCalls' = <<>>
            /\ storeBefore' = store
            /\ promises' =
                  IF r.issued
                  THEN Latest(Append(promises,
                          [input |-> scheduleInput(when), payload |-> description,
                           state |-> "pending", returned |-> r.result]))
                  ELSE promises
            /\ UNCHANGED <<store, schemaPrev, schemaLast>>

\* The scheduler finishes a call it was handed: the schedule is stored and
\* the promise fulfilled, or the call fails and the promise is rejected.
\* No tool awaits the promise or attaches a handler to it.
SettleSchedule ==
    \E i \in 1..Len(promises), outcome \in {"fulfilled", "rejected"} :
        /\ promises[i].state = "pending"
        /\ promises' = [promises EXCEPT ![i].state = outcome]
        /\ UNCHANGED <<store, tool, args, result, execCalls, storeBefore,
                       schemaPrev, schemaLast>>

Next == ExecuteSQLQuery \/ GetDatabaseSchema \/ ScheduleTask \/ SettleSchedule

\* The whole tool set.
Spec == Init /\ [][Next]_vars

\* The tools share only the storage, and of the tools modelled only
\* executeSQLQuery changes it, so each tool is explored in a specification
\* of its own.  The query tool: every request against every storage.
NextQuery == ExecuteSQLQuery

SpecQuery == Init /\ [][NextQuery]_vars

\* Schema introspection, interleaved with queries that read, that are
\* rejected, and that change the rows or the table set of the storage.
InterleavedQueries == {Q_SelectAll, Q_DropTable, Q_DeleteAfterSelect, Q_DropAfterSelect}

InterleavedQuery == ExecuteSQLQueryOf(InterleavedQueries, {NoLimit}, Faults)

NextSchema == GetDatabaseSchema \/ InterleavedQuery

SpecSchema == Init /\ [][NextSchema]_vars

\* Task scheduling.
NextSchedule == ScheduleTask \/ SettleSchedule

SpecSchedule == Init /\ [][NextSchedule]_vars

----------------------------------------------------------------------------
(* Properties.                                                             *)

Q_SelectAllLimit100 ==
    <<"S", "E", "L", "E", "C", "T", " ", "*", " ", "F", "R", "O", "M", " ",
      "c", "o", "n", "t", "a", "c", "t", "s", " ", "L", "I", "M", "I", "T",
      " ", "1", "0", "0">>

SQLInvoked == tool = "executeSQLQuery"

\* The text reads as a SELECT: after leading whitespace come the letters
\* s, e, l, e, c, t, each in either case.
LooksLikeSelect(q) ==
    \E i \in 1..Len(q) :
        /\ \A j \in 1..(i - 1) : q[j] = " "
        /\ i + Len(KwSelect) - 1 <= Len(q)
        /\ \A k \in 1..Len(KwSelect) :
              \/ q[i + k - 1] = KwSelect[k]
              \/ q[i + k - 1] = UpperChars[IndexIn(KwSelect[k], LowerChars)]

\* The text holds the word limit, in any casing.
MentionsLimit(q) ==
    \E i \in 1..Len(q) :
        /\ i + Len(KwLimit) - 1 <= Len(q)
        /\ \A k \in 1..Len(KwLimit) :
              \/ q[i + k - 1] = KwLimit[k]
              \/ q[i + k - 1] = UpperChars[IndexIn(KwLimit[k], LowerChars)]

Rejection == Text(<<RejectMsg>>)

IsSQLError(r) == r.kind = "text" /\ r.parts[1] = "SQL Error: "

\* The request was accepted: its text went to storage.exec.
Executed == SQLInvoked /\ Len(execCalls) > 0

\* The number storage reads in the LIMIT clause the guard appended.
LimitSeenByStorage == ParseInt(LimitOperand(toLowerCase(execCalls[1].text)))

\* C1: a query whose trimmed, lowercased text does not start with select is
\* answered with the only-SELECT rejection string, and storage.exec is not
\* invoked, whatever the limit.
C1_NonSelectRejected ==
    (SQLInvoked /\ ~LooksLikeSelect(args.query))
        => (result = Rejection /\ execCalls = <<>> /\ store = storeBefore)

C1_Witness ==
    /\ SQLInvoked
    /\ args.query = Q_DropTable
    /\ args.limit = Limit(MAX_LIMIT + RowsOver)
    /\ result = Rejection
    /\ execCalls = <<>>

\* C2: for every explicitly supplied limit L, 0 and negative L included, the
\* effective limit is min(L, 500) and lies in 0..500.
C2_EffectiveLimitClamped ==
    (Executed /\ args.limit.given /\ ~MentionsLimit(args.query))
        => /\ LimitSeenByStorage = Min(args.limit.value, MAX_LIMIT)
           /\ LimitSeenByStorage \in 0..MAX_LIMIT

\* C3: for every accepted request the returned rowCount is at most 500.
C3_RowCeiling ==
    (Executed /\ result.kind = "json") => result.value.rowCount <= MAX_LIMIT

\* C4: no write statement is ever handed to storage.exec, and an invocation
\* leaves the contents of the storage as it found them.
C4_ReadOnly ==
    SQLInvoked =>
        /\ \A i \in 1..Len(execCalls) :
              \A k \in 1..Len(Statements(execCalls[i].text)) :
                  ~IsWriteStatement(Statements(execCalls[i].text)[k])
        /\ store = storeBefore

\* C5 as stated: whenever storage.exec raises, with any kind of raised
\* value, the invocation returns a string that begins with SQL Error: and
\* contains the underlying failure message.
C5_AnyRaisedValueReported ==
    (Executed /\ execCalls[1].threw)
        => (IsSQLError(result) /\ result.parts[2] = execCalls[1].error.message)

\* C5 amended: whenever storage.exec raises, the invocation returns a string
\* that begins with SQL Error:, followed by the failure message when the
\* raised value is an Error instance and by Unknown error when it is not.
C5_RaisedErrorReported ==
    (Executed /\ execCalls[1].threw)
        => /\ IsSQLError(result)
           /\ Len(result.parts) = 2
           /\ execCalls[1].error.isError
                 => result.parts[2] = execCalls[1].error.message
           /\ ~execCalls[1].error.isError => result.parts[2] = "Unknown error"

C5_Witness ==
    /\ Executed
    /\ args.query = Q_Selectx
    /\ execCalls[1].threw
    /\ execCalls[1].error = Err("syntax error")
    /\ result = Text(<<"SQL Error: ", "syntax error">>)

\* C6: the text handed to storage.exec is the original text, character for
\* character, when the text mentions limit; otherwise it is the original
\* text followed by " LIMIT n", n the effective limit, 100 when no limit was
\* requested: SELECT * FROM contacts becomes SELECT * FROM contacts LIMIT 100.
C6_LimitInjection ==
    Executed =>
        /\ MentionsLimit(args.query) => execCalls[1].text = args.query
        /\ ~MentionsLimit(args.query) =>
              /\ execCalls[1].text
                    = args.query \o <<" ", "L", "I", "M", "I", "T", " ">>
                        \o NumberToString(safeLimit(inputLimit(args.limit)))
              /\ ~args.limit.given =>
                    execCalls[1].text
                        = args.query \o <<" ", "L", "I", "M", "I", "T", " ", "1", "0", "0">>
        /\ (args.query = Q_SelectAll /\ ~args.limit.given)
              => execCalls[1].text = Q_SelectAllLimit100

C6_Witness ==
    /\ Executed
    /\ args.query = Q_SelectAll
    /\ args.limit = NoLimit
    /\ execCalls[1].text = Q_SelectAllLimit100

\* C8: when storage.exec returns no rows the result is a success document
\* with rowCount 0, no rows and a message, not the rejection and not an SQL
\* Error string; when it returns rows, rowCount is their number and query is
\* the text executed.
C8_ResultShape ==
    (Executed /\ ~execCalls[1].threw) =>
        /\ result.kind = "json"
        /\ result.value.rowCount = Len(execCalls[1].rows)
        /\ result.value.rows = execCalls[1].rows
        /\ result.value.query = execCalls[1].text
        /\ Len(execCalls[1].rows) = 0
              => /\ result.value.rowCount = 0
                 /\ result.value.rows = <<>>
                 /\ "message" \in DOMAIN result.value

C8_Witness ==
    /\ Executed
    /\ ~execCalls[1].threw
    /\ Len(execCalls[1].rows) = 0
    /\ storeBefore[1].rows = 0
    /\ result.value.message = EmptyMsg

\* C9: an invocation calls storage.exec exactly once when the query is
\* accepted and not at all when it is rejected, also when the call fails,
\* and it ends by returning a value.
C9_SingleCycle ==
    SQLInvoked =>
        /\ Len(execCalls) = (IF LooksLikeSelect(args.query) THEN 1 ELSE 0)
        /\ result.kind \in {"text", "json"}

C9_Witness ==
    /\ Executed
    /\ execCalls[1].threw
    /\ Len(execCalls) = 1
    /\ result.kind = "text"

\* The tables of a schema document are in ascending order of their names.
OrderedByName(tables) ==
    \A i, j \in 1..Len(tables) : i < j => NameLess(tables[i].table, tables[j].table)

\* C7: two getDatabaseSchema runs that read the same table set, whatever
\* executeSQLQuery invocations came between them, return the same document:
\* the same tableCount and the same tables, ordered by table name.
C7_SchemaIdempotent ==
    /\ (schemaLast.ran /\ schemaLast.read /\ schemaLast.result.kind = "json")
          => /\ schemaLast.result.value.tableCount
                    = Cardinality(TableSet(schemaLast.store))
             /\ Len(schemaLast.result.value.tables)
                    = Cardinality(TableSet(schemaLast.store))
             /\ OrderedByName(schemaLast.result.value.tables)
    /\ (/\ schemaPrev.ran
        /\ schemaLast.ran
        /\ schemaPrev.read
        /\ schemaLast.read
        /\ TableSet(schemaPrev.store) = TableSet(schemaLast.store))
          => schemaPrev.result = schemaLast.result

\* Two runs on one table set, the rows of a table deleted between them.
C7_Witness ==
    /\ schemaPrev.ran
    /\ schemaLast.ran
    /\ schemaPrev.read
    /\ schemaLast.read
    /\ TableSet(schemaPrev.store) = TableSet(schemaLast.store)
    /\ schemaPrev.store # schemaLast.store
    /\ schemaLast.result.kind = "json"
    /\ schemaLast.result.value.tableCount = 2
    /\ schemaPrev.result = schemaLast.result

\* C10: every failure of the schedule operation, one that surfaces after the
\* call was issued included, is reported by scheduleTask as a string that
\* begins Error scheduling task:, never as a success; and no-schedule is
\* answered with Not a valid schedule input.
C10_ScheduleFailureReported ==
    /\ (tool = "scheduleTask" /\ args.when.type = "no-schedule")
          => result = Text(<<"Not a valid schedule input">>)
    /\ \A i \in 1..Len(promises) :
          promises[i].state = "rejected"
              => promises[i].returned.parts[1] = "Error scheduling task: "

=============================================================================
